---- MODULE Spec2Model ----
(***************************************************************************)
(* Session state machine of the simulation teaching agent.                 *)
(*                                                                         *)
(* One learning session (one thread_id) is modelled: the compiled          *)
(* LangGraph workflow of backend/graph.py, the twelve stage functions of   *)
(* backend/nodes/*.py and the two entry points of                          *)
(* frontend/utils/backend_bridge.py (initialize_session, send_message).    *)
(*                                                                         *)
(* Abstractions, chosen so that the state space is finite:                 *)
(*  - texts are replaced by tags; a confidence c in [0,1] is the integer   *)
(*    100*c;                                                               *)
(*  - messages keeps its last element and the number of elements appended *)
(*    since the session last halted (every stage builds its new value as   *)
(*    state.get("messages", []) + [...], and send_message reads only       *)
(*    messages[-1]); the older elements are forgotten when a resume starts;*)
(*  - an interaction keeps whether its understanding_status is filled;     *)
(*  - the oracle (Gemini) is a nondeterministic choice among: constructor  *)
(*    raises, call raises, response is not JSON, response is JSON.         *)
(* Every executed stage is one step, as the checkpointer saves the state   *)
(* after every stage.                                                      *)
(***************************************************************************)
EXTENDS Integers, Sequences, FiniteSets, TLC

(* ------------------------------ bounds --------------------------------- *)
\* longest concept list a well-formed oracle response carries
MaxConcepts == 2
\* longest takeaway list a well-formed oracle response carries
MaxTakeaways == 1
\* longest MCQ list a well-formed oracle response carries
MaxOracleMcqs == 1
\* number of send_message calls made on a session that is not waiting at
\* the probing stage: after summary, or after a resume that raised (the chat
\* page keeps the input enabled and lets the student retry)
MaxLateResumes == 1

\* longest concept list a session reaches the quiz with, in the
\* specification of the assessment phase
MaxQuizConcepts == 6

\* longest lesson plan, in the specification of the feedback stage
MaxPlan == 2

(* ------------------------- program constants --------------------------- *)
MAX_RE_EXPLAIN_ATTEMPTS == 3
MIN_MCQS == 3
MAX_MCQS == 5
\* "recursion_limit": 25 of both entry points
RecursionLimit == 25

(* representative confidences (percent) of an oracle response: below 0.4,  *)
(* the two thresholds 0.4 and 0.7 of feedback_node, and above 0.7          *)
Confidences == {10, 40, 70, 90}

Min(a, b) == IF a < b THEN a ELSE b
Max(a, b) == IF a > b THEN a ELSE b
Last(s) == s[Len(s)]

(* --------------------------- state schema ------------------------------ *)
\* keys of TeachingState that the model tracks; LangGraph creates one
\* channel per declared key and discards writes to any other key
TeachingState ==
    {"concepts", "current_concept_index", "takeaways",
     "current_takeaway_index", "re_explain_count", "interactions",
     "understanding_status", "mcqs", "current_mcq_index", "student_answers",
     "assessment", "messages", "next_action", "error"}

\* variant: a schema that also declares student_response, so that the value
\* send_message passes to update_state is stored
ChannelsWithStudentResponse == TeachingState \cup {"student_response"}

Channels == TeachingState

\* keys the stage functions read or write
Fields == Channels \cup {"student_response"}

NoTakeaway == [id |-> 0, concept |-> 0]
NoMessages == [len |-> 0, last |-> [kind |-> "none", q |-> NoTakeaway]]
AppendMsg(m, kind) == [len |-> m.len + 1, last |-> [kind |-> kind, q |-> NoTakeaway]]
AppendQuestion(m, t) == [len |-> m.len + 1, last |-> [kind |-> "probing_question", q |-> t]]
\* forget how many elements precede the last one
Older(m) == [len |-> 0, last |-> m.last]

\* value of understanding_status.get(...) on a state that never set it:
\* is_confused False, confidence_level 0.5
UnsetStatus ==
    [is_confused |-> FALSE, confidence_level |-> 50,
     last_interaction_quality |-> "unset"]
NeutralStatus ==
    [is_confused |-> FALSE, confidence_level |-> 50,
     last_interaction_quality |-> "neutral"]

\* assessment is absent before ingest ("unset"), None after ingest, the
\* assessment stage's record ("partial") and the summary's ("final")
Assessment(kind, total, correct, pct) ==
    [kind |-> kind, total_questions |-> total, correct_answers |-> correct,
     score_percentage |-> pct]
UnsetAssessment == Assessment("unset", 0, 0, 0)
NoneAssessment == Assessment("None", 0, 0, 0)

\* what state.get(key, default) yields for every key before any stage ran
EmptyState ==
    [concepts |-> <<>>, current_concept_index |-> 0, takeaways |-> <<>>,
     current_takeaway_index |-> 0, re_explain_count |-> 0,
     interactions |-> <<>>, understanding_status |-> UnsetStatus,
     mcqs |-> <<>>, current_mcq_index |-> 0, student_answers |-> <<>>,
     assessment |-> UnsetAssessment, messages |-> NoMessages,
     next_action |-> "unset", error |-> "none", student_response |-> "None"]

(* ----------------------------- ingestion ------------------------------- *)
simulation_ingest_node(s) ==
    [concepts |-> <<>>, current_concept_index |-> 0, interactions |-> <<>>,
     assessment |-> NoneAssessment]

\* simulation_params and simulation_buttons are not tracked
simulation_parser_node(s) == [x \in {} |-> 0]

ConceptOutcomes ==
    {[kind |-> k, n |-> 1] : k \in {"init_error", "error", "malformed"}}
    \cup {[kind |-> "ok", n |-> n] : n \in 0..MaxConcepts}

\* variant: concept_extractor_node whose exception handler returns no
\* placeholder concept
concept_extractor_node_without_fallback(s, o) ==
    IF o.kind = "ok"
    THEN [concepts |-> [i \in 1..o.n |-> [id |-> i, name |-> "oracle"]],
          current_concept_index |-> 0]
    ELSE [concepts |-> <<>>, current_concept_index |-> 0]

concept_extractor_node(s, o) ==
    IF o.kind = "init_error"
    THEN [concepts |-> <<[id |-> 1, name |-> "Concept from sim_name"]>>]
    ELSE IF o.kind = "ok"
    THEN [concepts |-> [i \in 1..o.n |-> [id |-> i, name |-> "oracle"]],
          current_concept_index |-> 0]
    ELSE [concepts |-> <<[id |-> 1, name |-> "Understanding sim_name"]>>,
          current_concept_index |-> 0]

(* ------------------------------- router -------------------------------- *)
\* variant: router_node testing the confusion flag before the cursor
router_node_confusion_first(s) ==
    LET next_action ==
            IF s.understanding_status.is_confused THEN "re-explain"
            ELSE IF s.current_concept_index >= Len(s.concepts) THEN "assess"
            ELSE "plan"
    IN  [next_action |-> next_action,
         messages |-> AppendMsg(s.messages, "router")]

router_node(s) ==
    LET next_action ==
            IF s.current_concept_index >= Len(s.concepts) THEN "assess"
            ELSE IF s.understanding_status.is_confused THEN "re-explain"
            ELSE "plan"
    IN  [next_action |-> next_action,
         messages |-> AppendMsg(s.messages, "router")]

(* ------------------------------- planner ------------------------------- *)
PlannerOutcomes ==
    {[kind |-> k, n |-> 0] : k \in {"init_error", "error", "malformed"}}
    \cup {[kind |-> "ok", n |-> n] : n \in 0..MaxTakeaways}

TakeawaysFor(s, n) ==
    [i \in 1..n |-> [id |-> i, concept |-> s.current_concept_index + 1]]

create_fallback_takeaways(s) == TakeawaysFor(s, 2)

\* parse_takeaways returns the validated list of a JSON response
parse_takeaways(s, o) == TakeawaysFor(s, o.n)

\* the exception leaves planner_node: ChatGoogleGenerativeAI(...) is built
\* outside the try block, and the except block (like both except blocks of
\* parse_takeaways) re-raises before its fallback return
planner_raises(s, o) ==
    /\ s.current_concept_index < Len(s.concepts)
    /\ o.kind # "ok"

planner_node(s, o) ==
    IF s.current_concept_index >= Len(s.concepts)
    THEN [error |-> "No concept available at current index",
          next_action |-> "assess"]
    ELSE LET parsed == parse_takeaways(s, o)
             takeaways == IF parsed = <<>> THEN create_fallback_takeaways(s)
                          ELSE parsed
         IN  [takeaways |-> takeaways, current_takeaway_index |-> 0,
              next_action |-> "teach",
              messages |-> AppendMsg(s.messages, "planner")]

(* --------------------------- teaching loop ----------------------------- *)
teaching_node(s) ==
    IF s.takeaways = <<>>
    THEN [error |-> "No takeaways available", next_action |-> "router",
          messages |-> AppendMsg(s.messages, "teaching_error")]
    ELSE IF s.current_takeaway_index >= Len(s.takeaways)
    THEN [current_concept_index |-> s.current_concept_index + 1,
          current_takeaway_index |-> 0, takeaways |-> <<>>,
          next_action |-> "router",
          messages |-> AppendMsg(s.messages, "teaching_completed")]
    ELSE [next_action |-> "probe",
          messages |-> AppendMsg(s.messages, "teaching")]

create_interaction_record(student_response) ==
    [student_response |-> student_response, understanding_status |-> "null"]

\* variant: probing_node without the test for a pending response
probing_node_always_recording(s) ==
    IF s.takeaways = <<>> \/ s.current_takeaway_index >= Len(s.takeaways)
    THEN [error |-> "No takeaway available for probing question",
          next_action |-> "router",
          messages |-> AppendMsg(s.messages, "probing_error")]
    ELSE LET current_takeaway == s.takeaways[s.current_takeaway_index + 1]
         IN  [interactions |-> Append(s.interactions,
                    create_interaction_record(s.student_response)),
              next_action |-> "check_understanding",
              messages |-> AppendQuestion(s.messages, current_takeaway),
              student_response |-> "None"]

\* variant: probing_node pausing although the cursor is on no takeaway
probing_node_pausing_without_takeaway(s) ==
    IF s.takeaways = <<>> \/ s.current_takeaway_index >= Len(s.takeaways)
    THEN [error |-> "No takeaway available for probing question",
          next_action |-> "wait_for_response",
          messages |-> AppendMsg(s.messages, "probing_error")]
    ELSE LET current_takeaway == s.takeaways[s.current_takeaway_index + 1]
         IN  IF s.student_response = "None"
             THEN [messages |-> AppendQuestion(s.messages, current_takeaway),
                   next_action |-> "wait_for_response"]
             ELSE [interactions |-> Append(s.interactions,
                        create_interaction_record(s.student_response)),
                   next_action |-> "check_understanding",
                   messages |-> AppendQuestion(s.messages, current_takeaway),
                   student_response |-> "None"]

\* variant: probing_node taking the response of the last interaction for a
\* pending one
probing_node_reprocessing(s) ==
    IF s.takeaways = <<>> \/ s.current_takeaway_index >= Len(s.takeaways)
    THEN [error |-> "No takeaway available for probing question",
          next_action |-> "router",
          messages |-> AppendMsg(s.messages, "probing_error")]
    ELSE LET current_takeaway == s.takeaways[s.current_takeaway_index + 1]
         IN  IF s.interactions = <<>>
             THEN [messages |-> AppendQuestion(s.messages, current_takeaway),
                   next_action |-> "wait_for_response"]
             ELSE [interactions |-> Append(s.interactions,
                        create_interaction_record(
                            s.interactions[Len(s.interactions)].student_response)),
                   next_action |-> "check_understanding",
                   messages |-> AppendQuestion(s.messages, current_takeaway),
                   student_response |-> "None"]

probing_node(s) ==
    IF s.takeaways = <<>> \/ s.current_takeaway_index >= Len(s.takeaways)
    THEN [error |-> "No takeaway available for probing question",
          next_action |-> "router",
          messages |-> AppendMsg(s.messages, "probing_error")]
    ELSE LET current_takeaway == s.takeaways[s.current_takeaway_index + 1]
         IN  IF s.student_response = "None"
             THEN [messages |-> AppendQuestion(s.messages, current_takeaway),
                   next_action |-> "wait_for_response"]
             ELSE [interactions |-> Append(s.interactions,
                        create_interaction_record(s.student_response)),
                   next_action |-> "check_understanding",
                   messages |-> AppendQuestion(s.messages, current_takeaway),
                   student_response |-> "None"]

Result(c, conf) == [classification |-> c, confidence |-> conf]

\* parse_understanding_response on a JSON response: any classification
\* (unknown ones become partial), confidence clamped into [0,1]
OracleUnderstanding ==
    {Result(c, conf) : c \in {"understood", "partial", "confused"},
                       conf \in Confidences}
\* parse_understanding_response on a response that is not JSON
TextUnderstanding ==
    {Result("understood", 70), Result("confused", 70), Result("partial", 50)}
\* all results of fallback_understanding_analysis
fallback_understanding_analysis ==
    {Result("confused", 60), Result("partial", 40), Result("understood", 60),
     Result("partial", 50)}

UnderstandingOutcomes ==
    OracleUnderstanding \cup TextUnderstanding \cup fallback_understanding_analysis

\* variant: understanding_checker_node returning only the interaction it
\* analysed
understanding_checker_node_keeping_last(s, o) ==
    IF s.interactions = <<>>
    THEN [error |-> "No interactions available for analysis",
          next_action |-> "feedback", understanding_status |-> NeutralStatus]
    ELSE LET understanding_status ==
                [is_confused |-> (o.classification = "confused"),
                 confidence_level |-> o.confidence,
                 last_interaction_quality |->
                    IF o.classification = "understood" THEN "good"
                    ELSE IF o.classification = "confused" THEN "poor"
                    ELSE "neutral"]
             n == Len(s.interactions)
         IN  [understanding_status |-> understanding_status,
              interactions |->
                 <<[s.interactions[n] EXCEPT !.understanding_status = "filled"]>>,
              next_action |-> "feedback",
              messages |-> AppendMsg(s.messages, "understanding_checker")]

understanding_checker_node(s, o) ==
    IF s.interactions = <<>>
    THEN [error |-> "No interactions available for analysis",
          next_action |-> "feedback", understanding_status |-> NeutralStatus]
    ELSE LET understanding_status ==
                [is_confused |-> (o.classification = "confused"),
                 confidence_level |-> o.confidence,
                 last_interaction_quality |->
                    IF o.classification = "understood" THEN "good"
                    ELSE IF o.classification = "confused" THEN "poor"
                    ELSE "neutral"]
             n == Len(s.interactions)
         IN  [understanding_status |-> understanding_status,
              interactions |->
                 [s.interactions EXCEPT ![n].understanding_status = "filled"],
              next_action |-> "feedback",
              messages |-> AppendMsg(s.messages, "understanding_checker")]

(* ------------------------------ feedback ------------------------------- *)
\* the handlers return (next_action, new_takeaway_idx, re_explain_count);
\* the feedback text is not tracked
Decision(next_action, idx, count) ==
    [next_action |-> next_action, new_takeaway_idx |-> idx,
     new_re_explain_count |-> count]

\* variant: handle_understood without the test for remaining takeaways
handle_understood_completing(current_takeaway_idx, total_takeaways) ==
    Decision("concept_complete", current_takeaway_idx + 1, 0)

handle_understood(current_takeaway_idx, total_takeaways) ==
    LET new_takeaway_idx == current_takeaway_idx + 1
    IN  IF new_takeaway_idx >= total_takeaways
        THEN Decision("concept_complete", new_takeaway_idx, 0)
        ELSE Decision("next_takeaway", new_takeaway_idx, 0)

\* variant: handle_partial without the limit on hints
handle_partial_without_cap(current_takeaway_idx, re_explain_count, total_takeaways) ==
    Decision("re_probe", current_takeaway_idx, re_explain_count + 1)

\* variant: handle_partial whose hint does not count as an attempt
handle_partial_keeping_count(current_takeaway_idx, re_explain_count, total_takeaways) ==
    IF re_explain_count >= MAX_RE_EXPLAIN_ATTEMPTS
    THEN LET new_takeaway_idx == current_takeaway_idx + 1
         IN  IF new_takeaway_idx >= total_takeaways
             THEN Decision("concept_complete", new_takeaway_idx, 0)
             ELSE Decision("next_takeaway", new_takeaway_idx, 0)
    ELSE Decision("re_probe", current_takeaway_idx, re_explain_count)

handle_partial(current_takeaway_idx, re_explain_count, total_takeaways) ==
    IF re_explain_count >= MAX_RE_EXPLAIN_ATTEMPTS
    THEN LET new_takeaway_idx == current_takeaway_idx + 1
         IN  IF new_takeaway_idx >= total_takeaways
             THEN Decision("concept_complete", new_takeaway_idx, 0)
             ELSE Decision("next_takeaway", new_takeaway_idx, 0)
    ELSE Decision("re_probe", current_takeaway_idx, re_explain_count + 1)

\* variant: handle_confused without the limit on re-explanations
handle_confused_without_cap(current_takeaway_idx, total_takeaways, re_explain_count) ==
    Decision("re_explain", current_takeaway_idx, re_explain_count + 1)

\* variant: handle_confused forcing the advance one call earlier
handle_confused_at_third_call(current_takeaway_idx, total_takeaways, re_explain_count) ==
    IF re_explain_count >= MAX_RE_EXPLAIN_ATTEMPTS - 1
    THEN LET new_takeaway_idx == current_takeaway_idx + 1
         IN  IF new_takeaway_idx >= total_takeaways
             THEN Decision("concept_complete", new_takeaway_idx, 0)
             ELSE Decision("next_takeaway", new_takeaway_idx, 0)
    ELSE Decision("re_explain", current_takeaway_idx, re_explain_count + 1)

handle_confused(current_takeaway_idx, total_takeaways, re_explain_count) ==
    IF re_explain_count >= MAX_RE_EXPLAIN_ATTEMPTS
    THEN LET new_takeaway_idx == current_takeaway_idx + 1
         IN  IF new_takeaway_idx >= total_takeaways
             THEN Decision("concept_complete", new_takeaway_idx, 0)
             ELSE Decision("next_takeaway", new_takeaway_idx, 0)
    ELSE Decision("re_explain", current_takeaway_idx, re_explain_count + 1)

\* variant: the paths of feedback_node with thresholds that exclude the
\* boundary values
FeedbackPath_above_thresholds(s) ==
    LET is_confused == s.understanding_status.is_confused
        confidence_level == s.understanding_status.confidence_level
    IN  IF ~is_confused /\ confidence_level > 70 THEN "understood"
        ELSE IF ~is_confused /\ confidence_level > 40 THEN "partial"
        ELSE "confused"

\* which of the three paths feedback_node takes
FeedbackPath(s) ==
    LET is_confused == s.understanding_status.is_confused
        confidence_level == s.understanding_status.confidence_level
    IN  IF ~is_confused /\ confidence_level >= 70 THEN "understood"
        ELSE IF ~is_confused /\ confidence_level >= 40 THEN "partial"
        ELSE "confused"

\* the decision of the handler that feedback_node calls
FeedbackDecision(s) ==
    LET path == FeedbackPath(s)
    IN  IF path = "understood"
        THEN handle_understood(s.current_takeaway_index, Len(s.takeaways))
        ELSE IF path = "partial"
        THEN handle_partial(s.current_takeaway_index, s.re_explain_count,
                            Len(s.takeaways))
        ELSE handle_confused(s.current_takeaway_index, Len(s.takeaways),
                             s.re_explain_count)

\* variant: feedback_node whose concept-boundary reset leaves
\* understanding_status as the checker stored it
feedback_node_keeping_status(s) ==
    LET d == FeedbackDecision(s)
        messages == AppendMsg(s.messages, "feedback")
    IN  IF d.next_action = "concept_complete"
        THEN [next_action |-> d.next_action,
              current_concept_index |-> s.current_concept_index + 1,
              current_takeaway_index |-> 0, takeaways |-> <<>>,
              re_explain_count |-> 0, messages |-> messages]
        ELSE [next_action |-> d.next_action,
              current_takeaway_index |-> d.new_takeaway_idx,
              re_explain_count |-> d.new_re_explain_count,
              messages |-> messages]

feedback_node(s) ==
    LET d == FeedbackDecision(s)
        messages == AppendMsg(s.messages, "feedback")
    IN  IF d.next_action = "concept_complete"
        THEN [next_action |-> d.next_action,
              current_concept_index |-> s.current_concept_index + 1,
              current_takeaway_index |-> 0, takeaways |-> <<>>,
              re_explain_count |-> 0, understanding_status |-> NeutralStatus,
              messages |-> messages]
        ELSE [next_action |-> d.next_action,
              current_takeaway_index |-> d.new_takeaway_idx,
              re_explain_count |-> d.new_re_explain_count,
              messages |-> messages]

\* variant: route_after_feedback sending an unrecognised token to the router
route_after_feedback_defaulting_to_router(s) ==
    IF s.next_action = "next_takeaway" THEN "teaching"
    ELSE IF s.next_action = "re_explain" THEN "teaching"
    ELSE IF s.next_action = "re_probe" THEN "probing"
    ELSE "router"

route_after_feedback(s) ==
    IF s.next_action = "next_takeaway" THEN "teaching"
    ELSE IF s.next_action = "re_explain" THEN "teaching"
    ELSE IF s.next_action = "re_probe" THEN "probing"
    ELSE IF s.next_action = "concept_complete" THEN "router"
    ELSE "teaching"

(* ----------------------------- assessment ------------------------------ *)
\* an MCQ of an oracle response before validation: whether its question is
\* non-empty, how many options it has, and its correct_answer; one
\* representative per case that validate_mcq tells apart
RawMcq(question, options, correct_answer) ==
    [question |-> question, options |-> options,
     correct_answer |-> correct_answer]
RawMcqs ==
    {RawMcq(TRUE, 2, 0), RawMcq(TRUE, 2, 1), RawMcq(TRUE, 2, 2),
     RawMcq(FALSE, 2, 0), RawMcq(TRUE, 1, 0)}

McqOutcomes ==
    {[kind |-> k, mcqs |-> <<>>] : k \in {"error", "malformed"}}
    \cup {[kind |-> "ok", mcqs |-> l] :
            l \in UNION {[1..k -> RawMcqs] : k \in 0..MaxOracleMcqs}}

Mcq(options, correct_answer) ==
    [options |-> options, correct_answer |-> correct_answer]

\* validate_mcq_keeping_index is the variant that keeps a correct_answer out
\* of range.
\* validate_mcq: None for an empty question or fewer than two options; a
\* correct_answer out of range becomes 0
ValidMcq(mcq) == mcq.question /\ mcq.options >= 2
validate_mcq_keeping_index(mcq) == Mcq(mcq.options, mcq.correct_answer)

validate_mcq(mcq) ==
    Mcq(mcq.options,
        IF mcq.correct_answer < 0 \/ mcq.correct_answer >= mcq.options
        THEN 0 ELSE mcq.correct_answer)

RECURSIVE parse_mcq_response(_)
parse_mcq_response(raw) ==
    IF raw = <<>> THEN <<>>
    ELSE LET rest == parse_mcq_response(Tail(raw))
         IN  IF ValidMcq(Head(raw)) THEN <<validate_mcq(Head(raw))>> \o rest
             ELSE rest

\* one four-option question per concept (at most MAX_MCQS), plus a general
\* one when that gives fewer than MIN_MCQS
generate_fallback_mcqs(concepts) ==
    LET per_concept == [i \in 1..Min(Len(concepts), MAX_MCQS) |-> Mcq(4, 0)]
    IN  IF Len(per_concept) < MIN_MCQS THEN Append(per_concept, Mcq(4, 0))
        ELSE per_concept

\* variant: the number of MCQs without the upper clamp
num_mcqs_without_upper_clamp(concepts) == Max(Len(concepts), MIN_MCQS)

\* the number of MCQs the prompt asks the oracle for
num_mcqs(concepts) == Min(Max(Len(concepts), MIN_MCQS), MAX_MCQS)

mcq_generator_node(s, o) ==
    IF s.concepts = <<>>
    THEN [error |-> "No concepts available to generate MCQs",
          mcqs |-> <<>>, next_action |-> "end",
          messages |-> AppendMsg(s.messages, "mcq_generator_error")]
    ELSE LET parsed == IF o.kind = "ok" THEN parse_mcq_response(o.mcqs)
                       ELSE IF o.kind = "malformed" THEN <<>>
                       ELSE generate_fallback_mcqs(s.concepts)
             mcqs == IF parsed = <<>> THEN generate_fallback_mcqs(s.concepts)
                     ELSE parsed
         IN  [mcqs |-> mcqs, current_mcq_index |-> 0,
              student_answers |-> <<>>, next_action |-> "present_mcq",
              messages |-> AppendMsg(s.messages, "mcq_generator")]

\* the score both branches of assessment_node compute
CorrectCount(answers, mcqs) ==
    Cardinality({i \in 1..Len(answers) :
                    i <= Len(mcqs) /\ answers[i] = mcqs[i].correct_answer})
ScorePct(correct, total) == IF total = 0 THEN 0 ELSE (correct * 100) \div total

\* simulate_student_answer returns the correct option or a wrong one; the
\* wrong options are interchangeable (an answer is only ever compared with
\* correct_answer), so the one after the correct option stands for them
Answers(mcq) ==
    IF mcq.options = 0 THEN {0}
    ELSE {mcq.correct_answer, (mcq.correct_answer + 1) % mcq.options}

\* assessment_node scoring the quiz before the last answer is appended
assessment_node_scoring_before_answer(s, answer) ==
    IF s.mcqs = <<>>
    THEN [error |-> "No MCQs available", next_action |-> "end",
          messages |-> AppendMsg(s.messages, "assessment_error")]
    ELSE IF s.current_mcq_index >= Len(s.mcqs)
    THEN LET correct_count == CorrectCount(s.student_answers, s.mcqs)
         IN  [assessment |-> Assessment("partial", Len(s.mcqs), correct_count,
                                        ScorePct(correct_count, Len(s.mcqs))),
              next_action |-> "summarize",
              messages |-> AppendMsg(s.messages, "assessment_completed")]
    ELSE LET new_answers == Append(s.student_answers, answer)
             new_index == s.current_mcq_index + 1
             correct_count == CorrectCount(s.student_answers, s.mcqs)
         IN  IF new_index >= Len(s.mcqs)
             THEN [student_answers |-> new_answers,
                   current_mcq_index |-> new_index,
                   assessment |-> Assessment("partial", Len(s.mcqs),
                        correct_count, ScorePct(correct_count, Len(s.mcqs))),
                   next_action |-> "summarize",
                   messages |-> [len |-> s.messages.len + 2,
                                 last |-> [kind |-> "assessment_completed",
                                           q |-> NoTakeaway]]]
             ELSE [student_answers |-> new_answers,
                   current_mcq_index |-> new_index,
                   next_action |-> "next_mcq",
                   messages |-> AppendMsg(s.messages, "assessment")]

assessment_node(s, answer) ==
    IF s.mcqs = <<>>
    THEN [error |-> "No MCQs available", next_action |-> "end",
          messages |-> AppendMsg(s.messages, "assessment_error")]
    ELSE IF s.current_mcq_index >= Len(s.mcqs)
    THEN LET correct_count == CorrectCount(s.student_answers, s.mcqs)
         IN  [assessment |-> Assessment("partial", Len(s.mcqs), correct_count,
                                        ScorePct(correct_count, Len(s.mcqs))),
              next_action |-> "summarize",
              messages |-> AppendMsg(s.messages, "assessment_completed")]
    ELSE LET new_answers == Append(s.student_answers, answer)
             new_index == s.current_mcq_index + 1
             correct_count == CorrectCount(new_answers, s.mcqs)
         IN  IF new_index >= Len(s.mcqs)
             THEN [student_answers |-> new_answers,
                   current_mcq_index |-> new_index,
                   assessment |-> Assessment("partial", Len(s.mcqs),
                        correct_count, ScorePct(correct_count, Len(s.mcqs))),
                   next_action |-> "summarize",
                   messages |-> [len |-> s.messages.len + 2,
                                 last |-> [kind |-> "assessment_completed",
                                           q |-> NoTakeaway]]]
             ELSE [student_answers |-> new_answers,
                   current_mcq_index |-> new_index,
                   next_action |-> "next_mcq",
                   messages |-> AppendMsg(s.messages, "assessment")]

route_after_assessment(s) ==
    IF s.next_action = "summarize" \/ s.current_mcq_index >= Len(s.mcqs)
    THEN "summary" ELSE "assessment"

\* state.get("assessment", {}) is None once ingest has stored None, and
\* None.get raises AttributeError
summary_raises(s) == s.assessment.kind = "None"

summary_node(s) ==
    [assessment |-> Assessment("final", s.assessment.total_questions,
                               s.assessment.correct_answers,
                               s.assessment.score_percentage),
     next_action |-> "complete",
     messages |-> AppendMsg(s.messages, "summary")]

(* ------------------------ edges of the workflow ------------------------ *)
\* the next_action tokens each conditional edge has a target for; the
\* assessment edge has no table of tokens: route_after_assessment names
\* summarize, and next_mcq is what assessment_node returns to loop
RouterTokens == {"plan", "assess"}
TeachingTokens == {"probe", "router"}
ProbingTokens == {"check_understanding", "wait_for_response"}
FeedbackTokens ==
    {"next_takeaway", "re_explain", "re_probe", "concept_complete"}
AssessmentTokens == {"next_mcq", "summarize"}

\* a conditional edge looks its token up in its table; a token without an
\* entry raises (KeyError)
RouterEdge(s) ==
    IF s.next_action = "plan" THEN "planner"
    ELSE IF s.next_action = "assess" THEN "mcq_generator"
    ELSE "raise"

TeachingEdge(s) ==
    IF s.next_action = "probe" THEN "probing"
    ELSE IF s.next_action = "router" THEN "router"
    ELSE "raise"

ProbingEdge(s) ==
    IF s.next_action = "check_understanding" THEN "understanding_checker"
    ELSE IF s.next_action = "wait_for_response" THEN "END"
    ELSE "raise"

\* variant: an executor that keeps only what the last stage returned
MergeReplacing(s, upd) ==
    [k \in DOMAIN s |->
        IF k \in DOMAIN upd /\ k \in Channels THEN upd[k] ELSE EmptyState[k]]

\* the executor's merge of a stage's partial update into the state
Merge(s, upd) ==
    [k \in DOMAIN s |->
        IF k \in DOMAIN upd /\ k \in Channels THEN upd[k] ELSE s[k]]

VARIABLES
    status,     \* "idle" | "running" | "halted" | "crashed"
    node,       \* stage that runs next ("END" when none)
    st,         \* the session state (the checkpointed values)
    trace,      \* stages executed by the current invocation, in order
    crash,      \* reason of the exception that aborted the invocation
    inv,        \* the current invocation: kind, what send_message read, and
                \* the oracle outcome of its concept extraction
    ghost,      \* counters over the session history
    pool        \* the process: the script thread that is stepping (cur),
                \* the thread_id each script thread holds, the latest
                \* checkpoint the shared MemorySaver holds under each
                \* thread_id, and the other script threads' invocations

vars == <<status, node, st, trace, crash, inv, ghost, pool>>

(* --------------------- sessions and the checkpointer ------------------- *)
\* two script threads of the frontend
Clients == {1, 2}

\* thread_id values; 0 stands for a browser session that has none yet
ThreadIds == {1, 2}

\* get_state on a thread_id that the MemorySaver holds nothing under
NoCheckpoint == [st |-> EmptyState, node |-> "END"]

\* pool.saver and pool.parked keep one field where the other fields have
\* the values of NoCheckpoint and IdleContext
Nothing == [node |-> "END"]
Idle == [status |-> "idle"]

IdleContext ==
    [status |-> "idle", node |-> "END", st |-> EmptyState,
     trace |-> <<>>, crash |-> "none",
     inv |-> [kind |-> "none", paused |-> FALSE, base |-> 0,
              concept_oracle |-> "none"],
     ghost |-> [plans |-> 0, plan_size |-> 0, resolved |-> 0, run |-> 0,
                late |-> 0, mcq_runs |-> 0, requested |-> 0,
                spent |-> 0]]

OnePool ==
    [cur |-> 1,
     thread_id |-> [c \in Clients |-> 0],
     saver |-> [t \in ThreadIds |-> Nothing],
     parked |-> [c \in Clients |-> Idle]]

\* variant: generate_thread_id returning the same id on every call
generate_thread_id_constant(used) == 1

\* session_ + the first 12 hex digits of uuid4(): an id that no session
\* has been given before (a collision of two 48-bit random values is left
\* out)
generate_thread_id(used) == CHOOSE t \in ThreadIds : t \notin used

\* pool.saver does not repeat the checkpoint that the stepping script
\* thread has just put: Stepping stands for <<st, node>> of that thread
Stepping == [node |-> "stepping"]

\* the process once the first script thread has started a session
StartedPool == [OnePool EXCEPT !.thread_id[1] = 1, !.saver[1] = Stepping]

\* the latest checkpoint the MemorySaver holds under thread_id t
Checkpoint(t) ==
    IF t = 0 \/ pool.saver[t] = Nothing THEN NoCheckpoint
    ELSE IF pool.saver[t] = Stepping THEN [st |-> st, node |-> node]
    ELSE pool.saver[t]

\* the stepping script thread puts the checkpoint <<st', node'>> under its
\* thread_id
Put == [pool EXCEPT !.saver[pool.thread_id[pool.cur]] = Stepping]

\* compiled_graph.get_state(config).values of the stepping script thread
get_state == Checkpoint(pool.thread_id[pool.cur]).st

(* ----------------------------- the executor ---------------------------- *)
Init ==
    /\ status = "idle"
    /\ node = "END"
    /\ st = EmptyState
    /\ trace = <<>>
    /\ crash = "none"
    /\ inv = [kind |-> "none", paused |-> FALSE, base |-> 0,
              concept_oracle |-> "none"]
    /\ ghost = [plans |-> 0, plan_size |-> 0, resolved |-> 0, run |-> 0,
                late |-> 0, mcq_runs |-> 0, requested |-> 0,
                spent |-> 0]
    /\ pool = OnePool

\* the exception of stage n leaves invoke(); the state keeps the values of
\* the last completed stage
Raise(n, reason) ==
    /\ trace' = Append(trace, n)
    /\ status' = "crashed"
    /\ crash' = reason
    /\ UNCHANGED <<node, st, pool>>

\* stage n returned upd and its outgoing edge names target
Run(n, upd, target) ==
    IF Len(trace) >= RecursionLimit THEN Raise(n, "GraphRecursionError")
    ELSE IF target = "raise" THEN Raise(n, "KeyError")
    ELSE /\ trace' = Append(trace, n)
         /\ st' = Merge(st, upd)
         /\ node' = target
         /\ status' = IF target = "END" THEN "halted" ELSE "running"
         /\ crash' = crash
         /\ pool' = Put

At(n) == status = "running" /\ node = n

\* initialize_session: invoke(initial_state, config) on a new thread_id
initialize_session ==
    /\ status = "idle"
    /\ status' = "running"
    /\ node' = "ingest"
    /\ st' = Merge(EmptyState, [x \in {} |-> 0])
    /\ trace' = <<>>
    /\ inv' = [kind |-> "cold", paused |-> FALSE, base |-> 0,
               concept_oracle |-> "none"]
    /\ LET thread_id ==
               generate_thread_id({pool.thread_id[c] : c \in Clients})
       IN  pool' = [pool EXCEPT
                      !.thread_id[pool.cur] = thread_id,
                      !.saver[thread_id] = Stepping]
    /\ UNCHANGED <<crash, ghost>>

\* the last invocation returned at the probing stage's wait point; any
\* other send_message (after summary, or the retry the chat page allows
\* after a resume raised) patches whatever checkpoint the thread holds
Paused == status = "halted" /\ get_state.next_action = "wait_for_response"

\* send_message up to the start of invoke(None, config): read the
\* checkpoint, append the interaction, update_state(as_node="probing");
\* the stages that invoke() runs are the steps that follow
send_message ==
    /\ \/ status = "halted"
       \/ status = "crashed" /\ inv.kind = "resume"
    /\ Paused \/ ghost.late < MaxLateResumes
    /\ LET current_values == get_state
           new_interaction ==
               [student_response |-> "response",
                understanding_status |-> "null"]
           interactions == Append(current_values.interactions, new_interaction)
           patched == Merge(current_values,
                            [student_response |-> "response",
                             interactions |-> interactions,
                             next_action |-> "check_understanding"])
       IN  /\ st' = [patched EXCEPT !.messages = Older(@)]
           /\ node' = ProbingEdge(patched)
           /\ pool' = Put
           /\ inv' = [kind |-> "resume",
                      paused |-> Paused,
                      base |-> Len(current_values.interactions),
                      concept_oracle |-> "none"]
           /\ ghost' = [ghost EXCEPT !.late = IF Paused THEN @ ELSE @ + 1]
    /\ status' = "running"
    /\ trace' = <<>>
    /\ crash' = "none"

Ingest ==
    /\ At("ingest")
    /\ Run("ingest", simulation_ingest_node(st), "parse")
    /\ UNCHANGED <<inv, ghost>>

Parse ==
    /\ At("parse")
    /\ Run("parse", simulation_parser_node(st), "extract_concepts")
    /\ UNCHANGED <<inv, ghost>>

ExtractConcepts ==
    /\ At("extract_concepts")
    /\ \E o \in ConceptOutcomes :
          /\ Run("extract_concepts", concept_extractor_node(st, o), "router")
          /\ inv' = [inv EXCEPT !.concept_oracle = o.kind]
    /\ UNCHANGED ghost

Router ==
    /\ At("router")
    /\ Run("router", router_node(st), RouterEdge(Merge(st, router_node(st))))
    /\ UNCHANGED <<inv, ghost>>

Planner ==
    /\ At("planner")
    /\ \E o \in PlannerOutcomes :
          IF planner_raises(st, o)
          THEN /\ Raise("planner", "planner_oracle_failure")
               /\ UNCHANGED ghost
          ELSE /\ Run("planner", planner_node(st, o), "teaching")
               /\ ghost' = IF "takeaways" \in DOMAIN planner_node(st, o)
                           THEN [ghost EXCEPT
                                   !.plans = @ + 1,
                                   !.plan_size = Len(planner_node(st, o).takeaways),
                                   !.resolved = 0]
                           ELSE ghost
    /\ UNCHANGED inv

Teaching ==
    /\ At("teaching")
    /\ Run("teaching", teaching_node(st),
           TeachingEdge(Merge(st, teaching_node(st))))
    /\ UNCHANGED <<inv, ghost>>

Probing ==
    /\ At("probing")
    /\ Run("probing", probing_node(st),
           ProbingEdge(Merge(st, probing_node(st))))
    /\ UNCHANGED <<inv, ghost>>

UnderstandingChecker ==
    /\ At("understanding_checker")
    /\ \E o \in UnderstandingOutcomes :
          Run("understanding_checker", understanding_checker_node(st, o),
              "feedback")
    /\ UNCHANGED <<inv, ghost>>

\* ghost.resolved counts the takeaways of the current plan that feedback
\* has advanced past; ghost.spent counts the consecutive feedback calls,
\* one per student response, that have left the cursor where it was;
\* ghost.run counts the consecutive feedback calls on one
\* takeaway whose understanding was confused with confidence 0.1, the first
\* of them entered with re_explain_count = 0
Feedback ==
    /\ At("feedback")
    /\ LET upd == feedback_node(st)
           scenarioB == st.understanding_status.is_confused
                        /\ st.understanding_status.confidence_level = 10
       IN  /\ Run("feedback", upd, route_after_feedback(Merge(st, upd)))
           /\ ghost' = [ghost EXCEPT
                  !.resolved = IF /\ upd.next_action \in
                                       {"next_takeaway", "concept_complete"}
                                  /\ st.current_takeaway_index <
                                       Len(st.takeaways)
                               THEN @ + 1 ELSE @,
                  !.spent = IF /\ st'.current_takeaway_index =
                                       st.current_takeaway_index
                                  /\ st'.current_concept_index =
                                       st.current_concept_index
                               THEN @ + 1 ELSE 0,
                  !.run = IF ~scenarioB THEN 0
                          ELSE IF st.re_explain_count = 0 THEN 1
                          ELSE IF @ > 0 THEN @ + 1 ELSE 0]
    /\ UNCHANGED inv

McqGenerator ==
    /\ At("mcq_generator")
    /\ \E o \in McqOutcomes :
          Run("mcq_generator", mcq_generator_node(st, o), "assessment")
    /\ ghost' = [ghost EXCEPT
                    !.mcq_runs = @ + 1,
                    !.requested = IF st.concepts = <<>> THEN @
                                  ELSE num_mcqs(st.concepts)]
    /\ UNCHANGED inv

AssessmentStep ==
    /\ At("assessment")
    /\ \E answer \in (IF st.current_mcq_index < Len(st.mcqs)
                      THEN Answers(st.mcqs[st.current_mcq_index + 1])
                      ELSE {0}) :
          LET upd == assessment_node(st, answer)
          IN  Run("assessment", upd, route_after_assessment(Merge(st, upd)))
    /\ UNCHANGED <<inv, ghost>>

Summary ==
    /\ At("summary")
    /\ IF summary_raises(st) THEN Raise("summary", "AttributeError")
       ELSE Run("summary", summary_node(st), "END")
    /\ UNCHANGED <<inv, ghost>>

Next ==
    \/ initialize_session
    \/ send_message
    \/ Ingest
    \/ Parse
    \/ ExtractConcepts
    \/ Router
    \/ Planner
    \/ Teaching
    \/ Probing
    \/ UnderstandingChecker
    \/ Feedback
    \/ McqGenerator
    \/ AssessmentStep
    \/ Summary

Spec == Init /\ [][Next]_vars

\* the executor runs the stage it has selected, and the learner answers
\* every question the session waits on
SpecLive == Init /\ [][Next]_vars /\ WF_vars(Next)

(* ----------------- the router on every input it accepts ---------------- *)
\* router_node reads current_concept_index, concepts and
\* understanding_status; every combination of them within the bounds, on
\* states that differ in fields it does not read
RouterInputs ==
    {[EmptyState EXCEPT
        !.concepts = [i \in 1..n |-> [id |-> i, name |-> "oracle"]],
        !.current_concept_index = c,
        !.understanding_status =
            [is_confused |-> b, confidence_level |-> conf,
             last_interaction_quality |-> "neutral"],
        !.re_explain_count = r,
        !.next_action = "concept_complete",
        !.assessment = NoneAssessment] :
        n \in 0..MaxConcepts, c \in 0..(MaxConcepts + 1), b \in BOOLEAN,
        conf \in Confidences, r \in 0..MAX_RE_EXPLAIN_ATTEMPTS}

InitRouter ==
    /\ status = "running"
    /\ node = "router"
    /\ st \in RouterInputs
    /\ trace = <<>>
    /\ crash = "none"
    /\ inv = [kind |-> "resume", paused |-> TRUE, base |-> 0,
              concept_oracle |-> "none"]
    /\ ghost = [plans |-> 0, plan_size |-> 0, resolved |-> 0, run |-> 0,
                late |-> 0, mcq_runs |-> 0, requested |-> 0,
                spent |-> 0]
    /\ pool = StartedPool

SpecRouter == InitRouter /\ [][Router]_vars

(* ------------- the assessment phase on longer concept lists ------------ *)
\* the states the router hands to mcq_generator once every concept has been
\* taught: the cursor is at the end of the list and the quiz fields still
\* hold what ingest stored
QuizInputs ==
    {[EmptyState EXCEPT
        !.concepts = [i \in 1..n |-> [id |-> i, name |-> "oracle"]],
        !.current_concept_index = n,
        !.interactions = [i \in 1..n |->
                             [student_response |-> "response",
                              understanding_status |-> "filled"]],
        !.understanding_status = NeutralStatus,
        !.next_action = "assess",
        !.assessment = NoneAssessment] : n \in 1..MaxQuizConcepts}

InitQuiz ==
    /\ status = "running"
    /\ node = "mcq_generator"
    /\ st \in QuizInputs
    /\ trace = <<"router">>
    /\ crash = "none"
    /\ inv = [kind |-> "resume", paused |-> TRUE, base |-> 0,
              concept_oracle |-> "none"]
    /\ ghost = [plans |-> 0, plan_size |-> 0, resolved |-> 0, run |-> 0,
                late |-> 0, mcq_runs |-> 0, requested |-> 0,
                spent |-> 0]
    /\ pool = StartedPool

NextQuiz ==
    \/ McqGenerator
    \/ AssessmentStep
    \/ Summary

SpecQuiz == InitQuiz /\ [][NextQuiz]_vars

(* ------------------- several sessions in one process ------------------- *)
\* the scheduler moves from the script thread pool.cur to script thread d:
\* the invocation of pool.cur keeps the values it holds in memory, d goes
\* on with its own, and every thread_id keeps its latest checkpoint
Switch ==
    \E d \in Clients \ {pool.cur} :
        LET ctx == IF pool.parked[d] = Idle THEN IdleContext
                   ELSE pool.parked[d]
        IN  /\ st' = ctx.st
            /\ node' = ctx.node
            /\ status' = ctx.status
            /\ trace' = ctx.trace
            /\ crash' = ctx.crash
            /\ inv' = ctx.inv
            /\ ghost' = ctx.ghost
            /\ pool' = [pool EXCEPT
                          !.cur = d,
                          !.saver = [t \in ThreadIds |->
                              IF pool.saver[t] = Nothing THEN Nothing
                              ELSE IF Checkpoint(t) =
                                         [st |-> ctx.st, node |-> ctx.node]
                                      /\ t = pool.thread_id[d]
                              THEN Stepping ELSE Checkpoint(t)],
                          !.parked = [@ EXCEPT
                              ![pool.cur] =
                                  IF status = "idle" THEN Idle
                                  ELSE [status |-> status, node |-> node,
                                        st |-> st, trace |-> trace,
                                        crash |-> crash, inv |-> inv,
                                        ghost |-> ghost],
                              ![d] = Idle]]

\* the teaching phase of two sessions: script thread c belongs to a
\* browser session of its own, which learns a
\* simulation of c concepts (of MaxConcepts at most), each session answers
\* the first question it is asked, and the script threads are interleaved
\* at every stage
NextSessions ==
    \/ Switch
    \/ initialize_session
    \/ send_message /\ Paused /\ inv.kind = "cold"
    \/ Ingest
    \/ Parse
    \/ ExtractConcepts /\ inv'.concept_oracle = "ok"
                       /\ Len(st'.concepts) = Min(pool.cur, MaxConcepts)
    \/ Router
    \/ Planner
    \/ Teaching
    \/ Probing
    \/ UnderstandingChecker
    \/ Feedback

SpecSessions == Init /\ [][NextSessions]_vars

(* --------------- a second answer while a resume is running ------------- *)
\* the learner submits another message while send_message is running: the
\* chat input was rendered enabled before _handle_user_message set
\* waiting_for_response, and the frontend starts a script thread d for the
\* rerun; d holds the thread_id of the same browser session and is about
\* to call send_message, while the first script thread goes on until
\* send_message returns
Rerun ==
    \E d \in Clients \ {pool.cur} :
        /\ pool.parked[d] = Idle
        /\ pool.thread_id[d] = 0
        /\ status = "running"
        /\ inv.kind = "resume"
        /\ pool' = [pool EXCEPT
                      !.thread_id[d] = pool.thread_id[pool.cur],
                      !.parked[d] = [IdleContext EXCEPT !.status = "halted"]]
        /\ UNCHANGED <<status, node, st, trace, crash, inv, ghost>>

\* the teaching phase of one session whose learner answers the first
\* question and may submit a second message before the answer is processed;
\* each script thread sends one message
NextRerun ==
    \/ Rerun
    \/ Switch
    \/ initialize_session /\ pool.cur = 1
    \/ send_message /\ inv.kind \in {"cold", "none"}
    \/ Ingest
    \/ Parse
    \/ ExtractConcepts /\ inv'.concept_oracle = "ok" /\ st'.concepts # <<>>
    \/ Router
    \/ Planner
    \/ Teaching
    \/ Probing
    \/ UnderstandingChecker
    \/ Feedback

SpecRerun == Init /\ [][NextRerun]_vars

(* ------------- the feedback stage on every input it accepts ------------ *)
\* confidence levels on both sides of the two thresholds
FeedbackConfidences == {0, 39, 40, 69, 70, 100}

\* the states the understanding checker hands to feedback: any outcome, any
\* re_explain_count the counter can hold, with the cursor on a takeaway of a
\* plan of MaxPlan takeaways at most or on no takeaway at all
FeedbackInputs ==
    {[EmptyState EXCEPT
        !.concepts = [i \in 1..2 |-> [id |-> i, name |-> "oracle"]],
        !.current_concept_index = c,
        !.takeaways = [i \in 1..n |-> [id |-> i, concept |-> c + 1]],
        !.current_takeaway_index = t,
        !.re_explain_count = r,
        !.interactions = <<[student_response |-> "response",
                            understanding_status |-> "filled"]>>,
        !.understanding_status =
            [is_confused |-> b, confidence_level |-> conf,
             last_interaction_quality |-> "neutral"],
        !.next_action = "feedback",
        !.assessment = NoneAssessment] :
        c \in 0..1, n \in 0..MaxPlan, t \in 0..MaxPlan, b \in BOOLEAN,
        conf \in FeedbackConfidences, r \in 0..MAX_RE_EXPLAIN_ATTEMPTS}

InitFeedback ==
    /\ status = "running"
    /\ node = "feedback"
    /\ st \in {s \in FeedbackInputs :
                  s.current_takeaway_index <= Len(s.takeaways)}
    /\ trace = <<"understanding_checker">>
    /\ crash = "none"
    /\ inv = [kind |-> "resume", paused |-> TRUE, base |-> 0,
              concept_oracle |-> "none"]
    /\ ghost = [plans |-> 0, plan_size |-> 0, resolved |-> 0, run |-> 0,
                late |-> 0, mcq_runs |-> 0, requested |-> 0,
                spent |-> 0]
    /\ pool = StartedPool

SpecFeedback == InitFeedback /\ [][Feedback]_vars

(* ------------- the edge after feedback on every token ----------------- *)
\* every token a stage of the program writes to next_action, "unset" for a
\* state without the key
NextActionTokens ==
    RouterTokens \cup TeachingTokens \cup ProbingTokens \cup FeedbackTokens
    \cup AssessmentTokens
    \cup {"unset", "start", "teach", "feedback", "router", "present_mcq",
          "complete", "end"}

InitAfterFeedback ==
    /\ status = "running"
    /\ node = "route_after_feedback"
    /\ st \in {[s EXCEPT !.next_action = t] :
                  s \in {i \in FeedbackInputs :
                           i.current_takeaway_index <= Len(i.takeaways)},
                  t \in NextActionTokens}
    /\ trace = <<"feedback">>
    /\ crash = "none"
    /\ inv = [kind |-> "resume", paused |-> TRUE, base |-> 0,
              concept_oracle |-> "none"]
    /\ ghost = [plans |-> 0, plan_size |-> 0, resolved |-> 0, run |-> 0,
                late |-> 0, mcq_runs |-> 0, requested |-> 0,
                spent |-> 0]
    /\ pool = StartedPool

\* the conditional edge after feedback, on its own
AfterFeedback ==
    /\ At("route_after_feedback")
    /\ node' = route_after_feedback(st)
    /\ UNCHANGED <<status, st, trace, crash, inv, ghost, pool>>

SpecAfterFeedback == InitAfterFeedback /\ [][AfterFeedback]_vars

(* --------------- the level recommendation of the summary -------------- *)
Levels == <<"Beginner", "Intermediate", "Advanced">>
Calibres == <<"Dull", "Medium", "High IQ">>
\* position of a level or calibre in its scale
Rank(scale, x) == CHOOSE i \in 1..Len(scale) : scale[i] = x
\* quiz scores in percent
Scores == 0..100

\* variant: the advance thresholds with High IQ and Dull exchanged
advance_threshold_exchanged(current_calibre) ==
    IF current_calibre = "High IQ" THEN 65
    ELSE IF current_calibre = "Medium" THEN 75
    ELSE 85

advance_threshold(current_calibre) ==
    IF current_calibre = "High IQ" THEN 85
    ELSE IF current_calibre = "Medium" THEN 75
    ELSE 65

stay_threshold(current_calibre) ==
    IF current_calibre = "High IQ" THEN 60
    ELSE IF current_calibre = "Medium" THEN 50
    ELSE 40

determine_next_level(score_pct, current_level, current_calibre) ==
    IF score_pct >= advance_threshold(current_calibre)
    THEN IF current_level = "Beginner" THEN "Intermediate"
         ELSE IF current_level = "Intermediate" THEN "Advanced"
         ELSE "Advanced"
    ELSE IF score_pct >= stay_threshold(current_calibre)
    THEN current_level
    ELSE IF current_level = "Advanced" THEN "Intermediate"
         ELSE IF current_level = "Intermediate" THEN "Beginner"
         ELSE "Beginner"

\* inv holds the arguments of the call and, once it has returned, its result
InitLevel ==
    /\ status = "running"
    /\ node = "determine_next_level"
    /\ st = EmptyState
    /\ trace = <<>>
    /\ crash = "none"
    /\ \E score_pct \in Scores, l \in 1..Len(Levels), c \in 1..Len(Calibres) :
          inv = [kind |-> "call", score_pct |-> score_pct,
                 current_level |-> Levels[l], current_calibre |-> Calibres[c],
                 recommended_level |-> "none"]
    /\ ghost = [plans |-> 0, plan_size |-> 0, resolved |-> 0, run |-> 0,
                late |-> 0, mcq_runs |-> 0, requested |-> 0,
                spent |-> 0]
    /\ pool = StartedPool

DetermineNextLevel ==
    /\ At("determine_next_level")
    /\ inv' = [inv EXCEPT
                 !.kind = "returned",
                 !.recommended_level =
                     determine_next_level(inv.score_pct, inv.current_level,
                                          inv.current_calibre)]
    /\ node' = "returned"
    /\ UNCHANGED <<status, st, trace, crash, ghost, pool>>

SpecLevel == InitLevel /\ [][DetermineNextLevel]_vars

TypeOK ==
    /\ status \in {"idle", "running", "halted", "crashed"}
    /\ st.current_concept_index \in Nat
    /\ st.re_explain_count \in Nat

(* ------------------------------ properties ----------------------------- *)
ColdStartStages ==
    <<"ingest", "parse", "extract_concepts", "router", "planner", "teaching",
      "probing">>

\* the stage that ran last in the current invocation
LastStage == IF trace = <<>> THEN "none" ELSE Last(trace)

\* a takeaway is available at the cursor
TakeawayAtCursor(s) ==
    s.takeaways # <<>> /\ s.current_takeaway_index < Len(s.takeaways)

(* C1: a resume of a paused session (send_message reads the checkpoint,    *)
(* patches it and invokes the graph until it halts) appends exactly one    *)
(* interaction to interactions, never zero and never two, at every stage   *)
(* of the resume and whichever feedback path it takes.                     *)
C1_ResumeAppendsOneInteraction ==
    (inv.kind = "resume" /\ inv.paused) =>
        Len(st.interactions) = inv.base + 1

\* a second response was processed on the re_probe path, which runs probing
\* again within the resume, and the session pauses with one more interaction
C1_Witness ==
    /\ status = "halted"
    /\ inv.kind = "resume" /\ inv.paused
    /\ inv.base = 1
    /\ trace = <<"understanding_checker", "feedback", "probing">>
    /\ Len(st.interactions) = 2

(* C2: current_concept_index never decreases from one step of a session   *)
(* to the next, over the cold start and every resume that follows.         *)
C2_ConceptIndexNeverDecreases ==
    [][st'.current_concept_index >= st.current_concept_index]_vars

\* resumes have taken the session past its second concept
C2_Witness ==
    /\ inv.kind = "resume"
    /\ Len(st.concepts) = 2
    /\ st.current_concept_index = 2

(* C3: whenever feedback_node starts, re_explain_count is at most          *)
(* MAX_RE_EXPLAIN_ATTEMPTS; and a feedback call entered with               *)
(* re_explain_count >= MAX_RE_EXPLAIN_ATTEMPTS on the Partial or Confused  *)
(* path resets the counter to 0 and either moves current_takeaway_index    *)
(* forward by one or completes the concept, within that call.              *)
C3_ReExplainCap ==
    [][At("feedback") =>
        /\ st.re_explain_count <= MAX_RE_EXPLAIN_ATTEMPTS
        /\ (/\ st.re_explain_count >= MAX_RE_EXPLAIN_ATTEMPTS
            /\ FeedbackPath(st) \in {"partial", "confused"}) =>
               /\ st'.re_explain_count = 0
               /\ \/ /\ st'.next_action = "next_takeaway"
                     /\ st'.current_takeaway_index =
                            st.current_takeaway_index + 1
                  \/ /\ st'.next_action = "concept_complete"
                     /\ st'.current_concept_index =
                            st.current_concept_index + 1]_vars

\* feedback has just advanced to the next takeaway although the stored
\* understanding is not on the Understood path: the forced advance
C3_Witness ==
    /\ LastStage = "feedback"
    /\ st.next_action = "next_takeaway"
    /\ FeedbackPath(st) \in {"partial", "confused"}
    /\ st.re_explain_count = 0
    /\ st.current_takeaway_index = 1

(* C4: every invocation (cold start or resume) ends in one of two          *)
(* situations: right after probing with next_action = wait_for_response,   *)
(* or right after summary with next_action = complete; no other stage is   *)
(* the last stage of an invocation.                                        *)
C4_EndsAfterProbingOrSummary ==
    status \in {"halted", "crashed"} =>
        \/ LastStage = "probing" /\ st.next_action = "wait_for_response"
        \/ LastStage = "summary" /\ st.next_action = "complete"

(* C5: a cold start executes ingest, parse, extract_concepts, router,      *)
(* planner, teaching, probing in that order and then halts with            *)
(* next_action = wait_for_response, both cursors 0 and no interaction.     *)
C5_ColdStartReachesFirstQuestion ==
    (inv.kind = "cold" /\ status \in {"halted", "crashed"}) =>
        /\ status = "halted"
        /\ trace = ColdStartStages
        /\ st.next_action = "wait_for_response"
        /\ st.current_concept_index = 0
        /\ st.current_takeaway_index = 0
        /\ st.interactions = <<>>

(* C6: with a concept list of length 1, mcq_generator runs only after the  *)
(* one plan of the session has had each of its takeaways resolved, not     *)
(* before the last of them, and the planner never plans a second time.     *)
C6_SingleConceptReachesAssess ==
    Len(st.concepts) = 1 =>
        /\ ghost.plans <= 1
        /\ (At("mcq_generator") \/ ghost.mcq_runs > 0) =>
               /\ ghost.plans = 1
               /\ ghost.plan_size >= 1
               /\ ghost.resolved = ghost.plan_size
        /\ (ghost.plans = 1 /\ ghost.resolved < ghost.plan_size) =>
               /\ ~At("mcq_generator")
               /\ ghost.mcq_runs = 0

\* the router has sent a one-concept session to mcq_generator after both
\* takeaways of its plan were resolved
C6_Witness ==
    /\ At("mcq_generator")
    /\ LastStage = "router"
    /\ Len(st.concepts) = 1
    /\ ghost.plans = 1
    /\ ghost.plan_size = 2
    /\ ghost.resolved = 2

(* C7: a feedback call that yields concept_complete increments             *)
(* current_concept_index by one, sets current_takeaway_index to 0, clears  *)
(* takeaways, sets re_explain_count to 0 and resets understanding_status   *)
(* to the neutral default (is_confused false), in that same call.          *)
C7_ConceptBoundaryReset ==
    [][(At("feedback") /\ st'.next_action = "concept_complete") =>
        /\ st'.current_concept_index = st.current_concept_index + 1
        /\ st'.current_takeaway_index = 0
        /\ st'.takeaways = <<>>
        /\ st'.re_explain_count = 0
        /\ st'.understanding_status = NeutralStatus
        /\ ~st'.understanding_status.is_confused]_vars

\* the one takeaway of the first concept was resolved by the first response
C7_Witness ==
    /\ LastStage = "feedback"
    /\ st.next_action = "concept_complete"
    /\ ghost.plan_size = 1
    /\ Len(st.interactions) = 1
    /\ st.current_concept_index = 1
    /\ st.takeaways = <<>>
    /\ st.understanding_status = NeutralStatus

(* C8, as the specification states it: on a single takeaway and            *)
(* consecutive confused classifications with confidence 0.1 from           *)
(* re_explain_count = 0, the first two feedback calls re-explain and the   *)
(* third call takes the forced advance.                                    *)
C8_ForcedAdvanceAtThirdCall ==
    (LastStage = "feedback" /\ ghost.plan_size = 1) =>
        /\ ghost.run \in 1..2 =>
               /\ st.re_explain_count = ghost.run
               /\ st.next_action = "re_explain"
        /\ ghost.run = 3 =>
               st.next_action \in {"next_takeaway", "concept_complete"}

(* C8, amended: on a single takeaway and consecutive confused              *)
(* classifications with confidence 0.1 from re_explain_count = 0, the      *)
(* first three feedback calls re-explain and leave re_explain_count at 1,  *)
(* 2 and 3; the fourth call, the first one entered with                    *)
(* re_explain_count >= 3, takes the forced advance and resets the counter. *)
C8_ForcedAdvanceAtFourthCall ==
    (LastStage = "feedback" /\ ghost.plan_size = 1) =>
        /\ ghost.run <= MAX_RE_EXPLAIN_ATTEMPTS + 1
        /\ ghost.run \in 1..MAX_RE_EXPLAIN_ATTEMPTS =>
               /\ st.re_explain_count = ghost.run
               /\ st.next_action = "re_explain"
        /\ ghost.run = MAX_RE_EXPLAIN_ATTEMPTS + 1 =>
               /\ st.re_explain_count = 0
               /\ st.next_action = "concept_complete"

\* the fourth consecutive confused response has forced the advance
C8_Witness ==
    /\ LastStage = "feedback"
    /\ ghost.plan_size = 1
    /\ ghost.run = MAX_RE_EXPLAIN_ATTEMPTS + 1
    /\ st.next_action = "concept_complete"
    /\ st.re_explain_count = 0

C10_NoOracleFailureAborts ==
    ~(status = "crashed" /\ crash = "planner_oracle_failure")

\* names that concept_extractor_node derives from the simulation name
DerivedConceptNames == {"Concept from sim_name", "Understanding sim_name"}

(* C11: when the oracle raises during concept extraction (at construction  *)
(* or at the call), the stage returns exactly one concept, named after the *)
(* simulation, current_concept_index is 0, and the cold start goes on to   *)
(* the router and from there to the planner.                               *)
C11_ExtractionExceptionFallsBack ==
    inv.concept_oracle \in {"init_error", "error"} =>
        /\ Len(st.concepts) = 1
        /\ st.concepts[1].name \in DerivedConceptNames
        /\ st.current_concept_index = 0
        /\ LastStage = "extract_concepts" => At("router")
        /\ LastStage = "router" =>
               At("planner") /\ st.next_action = "plan"
        /\ Len(trace) >= 5 =>
               SubSeq(trace, 3, 5) = <<"extract_concepts", "router", "planner">>

\* the oracle call raised and the router has handed the placeholder concept
\* to the planner
C11_Witness ==
    /\ inv.concept_oracle = "error"
    /\ At("planner")
    /\ LastStage = "router"
    /\ st.concepts = <<[id |-> 1, name |-> "Understanding sim_name"]>>

\* concept extraction has completed in this session
ExtractionDone == inv.kind = "resume" \/ inv.concept_oracle # "none"

(* C12: once the concept extraction stage has completed, concepts is       *)
(* non-empty, whatever the oracle did (exception, malformed JSON, JSON     *)
(* with an empty or missing concepts list), so no later stage runs with an *)
(* empty concept list.                                                     *)
C12_ConceptsNonEmptyAfterExtraction ==
    ExtractionDone => st.concepts # <<>>

(* C13: no stage with a conditional edge (router, teaching, probing,       *)
(* feedback, assessment) completes with a next_action token its edge has   *)
(* no target for: such a token makes the executor raise, it is never       *)
(* routed to a default stage.                                              *)
C13_UnrecognizedTokenRaises ==
    status # "crashed" =>
        /\ LastStage = "router" => st.next_action \in RouterTokens
        /\ LastStage = "teaching" => st.next_action \in TeachingTokens
        /\ LastStage = "probing" => st.next_action \in ProbingTokens
        /\ LastStage = "feedback" => st.next_action \in FeedbackTokens
        /\ LastStage = "assessment" => st.next_action \in AssessmentTokens

(* C14: when probing runs with no takeaway at the cursor, or the planner   *)
(* runs with current_concept_index out of range, the stage sets the error  *)
(* field and the executor moves on to a safe stage (router or assessment): *)
(* the invocation does not abort.                                          *)
C14_InvariantViolationRoutesToSafeStage ==
    [][(\/ At("probing") /\ ~TakeawayAtCursor(st)
        \/ At("planner")
              /\ st.current_concept_index >= Len(st.concepts)) =>
        /\ status' = "running"
        /\ st'.error # "none"
        /\ node' \in {"router", "mcq_generator", "assessment"}]_vars

(* C15: when the MCQ generator has run with an empty concept list, or the  *)
(* assessment stage with no MCQs, the error field is set, the invocation   *)
(* does not abort, and the summary stage does not run on the empty data.   *)
C15_EmptyDataNeverReachesSummary ==
    (ExtractionDone /\ st.concepts = <<>>) =>
        /\ status # "crashed"
        /\ LastStage # "summary"
        /\ LastStage \in {"mcq_generator", "assessment"} =>
               st.error # "none"

(* C16: after every stage, over the cold start and any resumes,            *)
(* current_takeaway_index <= len(takeaways) and                            *)
(* current_concept_index <= len(concepts).                                 *)
C16_CursorsWithinBounds ==
    /\ st.current_takeaway_index <= Len(st.takeaways)
    /\ st.current_concept_index <= Len(st.concepts)

\* the decision the router is specified to take
RouterDecision(current_concept_index, concepts, is_confused) ==
    IF current_concept_index >= Len(concepts) THEN "assess"
    ELSE IF is_confused THEN "re-explain"
    ELSE "plan"

C18_RouterNeverReExplains ==
    At("router") =>
        /\ st.current_concept_index < Len(st.concepts) =>
               ~st.understanding_status.is_confused
        /\ router_node(st).next_action \in RouterTokens

(* C19: once the assessment stage has completed the quiz (its step returned *)
(* summarize, or the summary stage ran after it), counting the positions i  *)
(* where student_answers[i] equals mcqs[i].correct_answer and dividing by    *)
(* len(mcqs) gives the correct count and the percentage of the stored        *)
(* assessment record, which are also the ones the summary reports.           *)
Recount(s) ==
    Cardinality({i \in 1..Min(Len(s.student_answers), Len(s.mcqs)) :
                    s.student_answers[i] = s.mcqs[i].correct_answer})

QuizScored ==
    /\ status # "idle"
    /\ trace # <<>>
    /\ \/ LastStage = "assessment" /\ st.next_action = "summarize"
       \/ LastStage = "summary" /\ status # "crashed"

C19_ScoreRecomputes ==
    QuizScored =>
        /\ st.mcqs # <<>>
        /\ st.assessment.kind =
               (IF LastStage = "summary" THEN "final" ELSE "partial")
        /\ st.assessment.total_questions = Len(st.mcqs)
        /\ st.assessment.correct_answers = Recount(st)
        /\ st.assessment.score_percentage =
               (Recount(st) * 100) \div Len(st.mcqs)

\* the summary has reported a quiz of several questions of which some, but
\* not all, were answered correctly
C19_Witness ==
    /\ QuizScored
    /\ LastStage = "summary"
    /\ Len(st.mcqs) >= 2
    /\ Len(st.student_answers) = Len(st.mcqs)
    /\ st.assessment.correct_answers > 0
    /\ st.assessment.correct_answers < Len(st.mcqs)

(* C20: for every non-empty concept list the number of MCQs the generator   *)
(* asks the oracle for is the number of concepts clamped to 3..5: 3 for 1,  *)
(* 2 or 3 concepts, 4 for 4 concepts, 5 for 5 or more.                      *)
C20_RequestedMcqsClamped ==
    (ghost.mcq_runs > 0 /\ st.concepts # <<>>) =>
        ghost.requested =
            (IF Len(st.concepts) <= 3 THEN 3
             ELSE IF Len(st.concepts) = 4 THEN 4
             ELSE 5)

\* the generator has run on a list of more concepts than MAX_MCQS
C20_Witness ==
    /\ ghost.mcq_runs > 0
    /\ "mcq_generator" \in {trace[i] : i \in 1..Len(trace)}
    /\ Len(st.concepts) > MAX_MCQS
    /\ ghost.requested = MAX_MCQS

(* C21: sessions with different thread_id values are independent: a cold   *)
(* start, a resume or a stage of one session, and any change of the        *)
(* stepping script thread, leaves the checkpoint that the shared           *)
(* MemorySaver holds for every other session as it was.                    *)
Snapshot(c) ==
    IF pool.thread_id[c] = 0 THEN NoCheckpoint
    ELSE Checkpoint(pool.thread_id[c])

C21_SessionsIndependent ==
    [][\A c \in Clients :
          (c # pool.cur \/ pool'.cur # pool.cur) =>
              Snapshot(c)' = Snapshot(c)]_vars

\* the second session is in the middle of its resume while the first one,
\* on another simulation, waits for the answer to its second question
C21_Witness ==
    /\ pool.cur = 2
    /\ pool.thread_id[1] # 0
    /\ pool.thread_id[2] # 0
    /\ pool.thread_id[1] # pool.thread_id[2]
    /\ At("feedback")
    /\ Len(st.concepts) = 2
    /\ Len(Snapshot(1).st.concepts) = 1
    /\ Len(Snapshot(1).st.interactions) = 1
    /\ Snapshot(1).st.next_action = "wait_for_response"

(* C22: the steps of one resume never interleave with the steps of another *)
(* resume of the same session: two script threads that hold the same       *)
(* thread_id never have an invocation running at the same time, and once   *)
(* both have returned, the checkpoint holds one interaction for each       *)
(* response that was sent.                                                  *)
SameSession(c) ==
    /\ c # pool.cur
    /\ pool.thread_id[c] # 0
    /\ pool.thread_id[c] = pool.thread_id[pool.cur]

Returned(s) == s \in {"halted", "crashed"}

C22_ResumesNeverInterleave ==
    \A c \in Clients :
        SameSession(c) =>
            /\ ~(status = "running" /\ pool.parked[c].status = "running")
            /\ (/\ Returned(status) /\ inv.kind = "resume"
                /\ Returned(pool.parked[c].status)
                /\ pool.parked[c].inv.kind = "resume")
               => Len(get_state.interactions) = 2

(* C23: interactions and messages are append-only: every stage and every   *)
(* resume keeps the messages it found and adds to their end, and keeps     *)
(* every interaction in its place; the only change to an existing          *)
(* interaction is the understanding checker filling understanding_status   *)
(* of the last one, with the length unchanged.                             *)
\* messages holds the number of elements since the last halt and the last
\* element: send_message, which does not write messages, restarts the count
MessagesKept ==
    IF status # "running" /\ status' = "running" /\ status # "idle"
    THEN st'.messages = Older(get_state.messages)
    ELSE /\ st'.messages.len >= st.messages.len
         /\ st'.messages.len = st.messages.len => st'.messages = st.messages

InteractionsKept ==
    LET old == IF status # "running" /\ status' = "running"
               THEN get_state.interactions ELSE st.interactions
        n == Len(old)
    IN  /\ Len(st'.interactions) >= n
        /\ \A i \in 1..n :
              \/ st'.interactions[i] = old[i]
              \/ /\ i = n
                 /\ Len(st'.interactions) = n
                 /\ At("understanding_checker")
                 /\ st'.interactions[i] =
                        [old[i] EXCEPT !.understanding_status = "filled"]

C23_AppendOnlyLogs == [][MessagesKept /\ InteractionsKept]_vars

\* the understanding checker has filled the second interaction of a
\* session and added its message
C23_Witness ==
    /\ LastStage = "understanding_checker"
    /\ At("feedback")
    /\ Len(st.interactions) = 2
    /\ \A i \in 1..2 : st.interactions[i].understanding_status = "filled"
    /\ st.messages.last.kind = "understanding_checker"

(* C24: every interaction appended for a student response has its         *)
(* understanding_status filled by the understanding checker before the     *)
(* invocation halts, so at every pause point no interaction but the last   *)
(* one can be unresolved, and the one a resume appended is resolved.       *)
Unresolved(s) ==
    {i \in 1..Len(s.interactions) :
        s.interactions[i].understanding_status = "null"}

C24_InteractionsResolvedAtPause ==
    status = "halted" =>
        /\ Unresolved(st) \subseteq {Len(st.interactions)}
        /\ inv.kind = "resume" => Unresolved(st) = {}

(* C25: for every understanding outcome feedback_node takes exactly one of *)
(* three paths: Understood iff not is_confused and confidence >= 0.7,      *)
(* Partial iff not is_confused and 0.4 <= confidence < 0.7, Confused in    *)
(* every other case.                                                       *)
ClaimedPath(u) ==
    IF ~u.is_confused /\ u.confidence_level >= 70 THEN "understood"
    ELSE IF ~u.is_confused /\ u.confidence_level >= 40
            /\ u.confidence_level < 70
    THEN "partial"
    ELSE "confused"

\* what the handler of a path decides on state s
HandlerOf(path, s) ==
    IF path = "understood"
    THEN handle_understood(s.current_takeaway_index, Len(s.takeaways))
    ELSE IF path = "partial"
    THEN handle_partial(s.current_takeaway_index, s.re_explain_count,
                        Len(s.takeaways))
    ELSE handle_confused(s.current_takeaway_index, Len(s.takeaways),
                         s.re_explain_count)

C25_ThreeFeedbackPaths ==
    [][At("feedback") =>
          LET d == HandlerOf(ClaimedPath(st.understanding_status), st)
          IN  /\ Cardinality({p \in {"understood", "partial", "confused"} :
                                 p = FeedbackPath(st)}) = 1
              /\ FeedbackPath(st) = ClaimedPath(st.understanding_status)
              /\ st'.next_action = d.next_action
              /\ d.next_action # "concept_complete" =>
                    /\ st'.current_takeaway_index = d.new_takeaway_idx
                    /\ st'.re_explain_count = d.new_re_explain_count]_vars

\* feedback has taken the Understood path on a confidence of exactly 0.7
C25_Witness ==
    /\ LastStage = "feedback"
    /\ ~st.understanding_status.is_confused
    /\ st.understanding_status.confidence_level = 70
    /\ st.next_action = "next_takeaway"
    /\ st.re_explain_count = 0
    /\ st.current_takeaway_index = 1

(* C26: the feedback decision follows the classification of the            *)
(* understanding checker: understood advances to the next takeaway or      *)
(* completes the concept; below three attempts partial re-probes the same  *)
(* question and confused re-explains the same takeaway.                    *)
\* the classification the checker stored, read back from the quality tag
Classification(s) ==
    IF s.understanding_status.last_interaction_quality = "good"
    THEN "understood"
    ELSE IF s.understanding_status.last_interaction_quality = "poor"
    THEN "confused"
    ELSE "partial"

C26_FeedbackFollowsClassification ==
    [][(At("feedback") /\ LastStage = "understanding_checker"
        /\ st.interactions # <<>>) =>
          /\ Classification(st) = "understood" =>
                st'.next_action \in {"next_takeaway", "concept_complete"}
          /\ (Classification(st) = "partial"
               /\ st.re_explain_count < MAX_RE_EXPLAIN_ATTEMPTS) =>
                st'.next_action = "re_probe"
          /\ (Classification(st) = "confused"
               /\ st.re_explain_count < MAX_RE_EXPLAIN_ATTEMPTS) =>
                st'.next_action = "re_explain"]_vars

(* C27: a feedback call entered with re_explain_count < 3 on the Partial   *)
(* or Confused path leaves current_takeaway_index, current_concept_index,  *)
(* takeaways and interactions unchanged, adds exactly one to               *)
(* re_explain_count and sets next_action to re_probe (Partial) or          *)
(* re_explain (Confused).                                                  *)
C27_RetryFrame ==
    [][(At("feedback") /\ FeedbackPath(st) \in {"partial", "confused"}
        /\ st.re_explain_count < MAX_RE_EXPLAIN_ATTEMPTS) =>
          /\ st'.current_takeaway_index = st.current_takeaway_index
          /\ st'.current_concept_index = st.current_concept_index
          /\ st'.takeaways = st.takeaways
          /\ st'.interactions = st.interactions
          /\ st'.re_explain_count = st.re_explain_count + 1
          /\ st'.next_action = IF FeedbackPath(st) = "partial"
                               THEN "re_probe" ELSE "re_explain"]_vars

\* feedback has given a hint on a second attempt and kept the cursor
C27_Witness ==
    /\ LastStage = "feedback"
    /\ st.next_action = "re_probe"
    /\ st.re_explain_count = 2
    /\ st.current_takeaway_index = 1
    /\ Len(st.takeaways) = 2
    /\ st.interactions # <<>>

C29_ResponsesPerTakeaway ==
    /\ ghost.spent + 1 <= MAX_RE_EXPLAIN_ATTEMPTS + 1
    /\ ghost.spent <= st.re_explain_count
\* three responses in a row have left the cursor on the second takeaway,
\* the last of them answered with a hint
C29_Witness ==
    /\ LastStage = "feedback"
    /\ ghost.spent = MAX_RE_EXPLAIN_ATTEMPTS
    /\ st.re_explain_count = MAX_RE_EXPLAIN_ATTEMPTS
    /\ st.next_action = "re_probe"
    /\ st.understanding_status.is_confused = FALSE
    /\ Len(st.interactions) >= MAX_RE_EXPLAIN_ATTEMPTS

(* C30: if the learner answers every probing question, then whatever the   *)
(* classifications and whichever oracle calls succeed or fail, the session *)
(* eventually reaches the summary stage with next_action = complete.       *)
C30_SessionReachesSummary ==
    <>(/\ LastStage = "summary"
       /\ status = "halted"
       /\ st.next_action = "complete")

(* C31: a student response that has been recorded and evaluated is never   *)
(* processed a second time: probing, entered again within the invocation   *)
(* of a resume, records no interaction and triggers no second              *)
(* understanding check, so each resume causes exactly one understanding    *)
(* check and one feedback decision.                                        *)
\* how often stage n has run in the current invocation
Runs(n) == Cardinality({i \in 1..Len(trace) : trace[i] = n})

C31_ResponseProcessedOnce ==
    inv.kind = "resume" =>
        /\ Runs("understanding_checker") <= 1
        /\ Runs("feedback") <= 1
        /\ Len(st.interactions) = inv.base + 1
        /\ status = "halted" =>
              /\ Runs("understanding_checker") = 1
              /\ Runs("feedback") = 1
        /\ (status = "halted" /\ LastStage = "probing") =>
              st.next_action = "wait_for_response"

\* a resume whose feedback sent the response back to probing has paused
\* again with one check, one decision and one interaction more
C31_Witness ==
    /\ inv.kind = "resume"
    /\ status = "halted"
    /\ trace = <<"understanding_checker", "feedback", "probing">>
    /\ st.next_action = "wait_for_response"
    /\ Len(st.interactions) = inv.base + 1
    /\ inv.base >= 1

(* C32: the assessment phase starts only after teaching is over:           *)
(* mcq_generator runs only where current_concept_index >= len(concepts),   *)
(* at most once per session, and after it no planner, teaching, probing,   *)
(* understanding-checker or feedback stage runs again; mcqs,               *)
(* current_mcq_index and student_answers are not set before that point.    *)
TeachingStages ==
    {"planner", "teaching", "probing", "understanding_checker", "feedback"}

C32_AssessmentAfterTeaching ==
    /\ ghost.mcq_runs <= 1
    /\ At("mcq_generator") =>
          st.current_concept_index >= Len(st.concepts)
    /\ ghost.mcq_runs >= 1 => ~(status = "running" /\ node \in TeachingStages)
    /\ ghost.mcq_runs = 0 =>
          /\ st.mcqs = <<>>
          /\ st.current_mcq_index = 0
          /\ st.student_answers = <<>>

(* C33: each execution of assessment_node with current_mcq_index <         *)
(* len(mcqs) records exactly one answer and advances the cursor by one, so *)
(* len(student_answers) = current_mcq_index after every step; the stage    *)
(* loops while the cursor is below len(mcqs) and moves to summary exactly  *)
(* when the cursor reaches len(mcqs), and at that point, not before, the   *)
(* assessment record becomes non-null.                                     *)
C33_AssessmentLoop ==
    [][(At("assessment") /\ st.current_mcq_index < Len(st.mcqs)) =>
          /\ Len(st.student_answers) = st.current_mcq_index
          /\ st.assessment.kind = "None"
          /\ Len(st'.student_answers) = Len(st.student_answers) + 1
          /\ SubSeq(st'.student_answers, 1, Len(st.student_answers)) =
                st.student_answers
          /\ st'.current_mcq_index = st.current_mcq_index + 1
          /\ Len(st'.student_answers) = st'.current_mcq_index
          /\ IF st'.current_mcq_index = Len(st.mcqs)
             THEN node' = "summary" /\ st'.assessment.kind # "None"
             ELSE node' = "assessment" /\ st'.assessment.kind = "None"]_vars

(* C34: after mcq_generator has run on a non-empty concept list, whatever  *)
(* the oracle returned (error, unparseable response, no valid question,    *)
(* valid response), mcqs is non-empty, every MCQ has at least 2 options    *)
(* and a correct_answer within range of them, current_mcq_index = 0 and    *)
(* student_answers is empty.                                               *)
C34_McqsWellFormed ==
    (LastStage = "mcq_generator" /\ status # "crashed"
     /\ st.concepts # <<>>) =>
        /\ st.mcqs # <<>>
        /\ \A i \in 1..Len(st.mcqs) :
              /\ st.mcqs[i].options >= 2
              /\ st.mcqs[i].correct_answer \in 0..(st.mcqs[i].options - 1)
        /\ st.current_mcq_index = 0
        /\ st.student_answers = <<>>

\* mcq_generator has returned the fallback questions
C34_Witness ==
    /\ LastStage = "mcq_generator"
    /\ status = "running"
    /\ st.concepts # <<>>
    /\ st.mcqs = generate_fallback_mcqs(st.concepts)
    /\ st.current_mcq_index = 0

(* C35: the summary stage is terminal and only derives a report: it sets   *)
(* next_action = complete, keeps total_questions, correct_answers and      *)
(* score_percentage as the assessment stage stored them, leaves the        *)
(* cursors, interactions, mcqs and student_answers unchanged, and no stage *)
(* runs after it in that session.                                          *)
SummaryFrame ==
    (At("summary") /\ status' # "crashed") =>
        /\ st'.next_action = "complete"
        /\ st'.assessment.total_questions = st.assessment.total_questions
        /\ st'.assessment.correct_answers = st.assessment.correct_answers
        /\ st'.assessment.score_percentage = st.assessment.score_percentage
        /\ st'.current_concept_index = st.current_concept_index
        /\ st'.current_takeaway_index = st.current_takeaway_index
        /\ st'.current_mcq_index = st.current_mcq_index
        /\ st'.interactions = st.interactions
        /\ st'.mcqs = st.mcqs
        /\ st'.student_answers = st.student_answers
        /\ status' = "halted"

SummaryTerminal ==
    (status = "halted" /\ LastStage = "summary") => UNCHANGED <<status, st>>

C35_SummaryIsTerminal == [][SummaryFrame /\ SummaryTerminal]_vars

(* C36: determine_next_level uses advance/stay thresholds 85/60 for High   *)
(* IQ, 75/50 for Medium and 65/40 for Dull: for every score, level and     *)
(* calibre the recommended level is one of Beginner, Intermediate,         *)
(* Advanced and at most one step from the current level (up when score >=  *)
(* advance threshold, same when score >= stay threshold, down otherwise,   *)
(* saturating at the ends); and for a fixed score and level, whenever a    *)
(* higher calibre is recommended to advance, every lower calibre is too.   *)
ClaimedThresholds(calibre) ==
    CASE calibre = "High IQ" -> [advance |-> 85, stay |-> 60]
      [] calibre = "Medium" -> [advance |-> 75, stay |-> 50]
      [] calibre = "Dull" -> [advance |-> 65, stay |-> 40]

\* one step on the scale of levels, saturating at its ends
StepFrom(level, d) ==
    Levels[Max(1, Min(Len(Levels), Rank(Levels, level) + d))]

C36_NextLevelThresholds ==
    inv.kind = "returned" =>
        LET t == ClaimedThresholds(inv.current_calibre)
            up == StepFrom(inv.current_level, 1)
        IN  /\ \E l \in 1..Len(Levels) : inv.recommended_level = Levels[l]
            /\ inv.recommended_level =
                  IF inv.score_pct >= t.advance THEN up
                  ELSE IF inv.score_pct >= t.stay THEN inv.current_level
                  ELSE StepFrom(inv.current_level, -1)
            /\ (inv.recommended_level = up /\ up # inv.current_level) =>
                  \A c \in 1..Len(Calibres) :
                      c < Rank(Calibres, inv.current_calibre) =>
                          determine_next_level(inv.score_pct,
                              inv.current_level, Calibres[c]) = up

\* a High IQ learner at Intermediate has been advanced on a score of 85
C36_Witness ==
    /\ inv.kind = "returned"
    /\ inv.current_calibre = "High IQ"
    /\ inv.current_level = "Intermediate"
    /\ inv.score_pct = 85
    /\ inv.recommended_level = "Advanced"

(* C37: at every pause (invocation halted with next_action =               *)
(* wait_for_response) the session is on a real takeaway of a real concept: *)
(* takeaways is non-empty, current_takeaway_index < len(takeaways),        *)
(* current_concept_index < len(concepts), re_explain_count <= 3, and the   *)
(* question appended last to messages is the probing question of           *)
(* takeaways[current_takeaway_index].                                      *)
C37_PauseOnRealTakeaway ==
    (status = "halted" /\ st.next_action = "wait_for_response") =>
        /\ st.takeaways # <<>>
        /\ st.current_takeaway_index < Len(st.takeaways)
        /\ st.current_concept_index < Len(st.concepts)
        /\ st.re_explain_count <= MAX_RE_EXPLAIN_ATTEMPTS
        /\ st.messages.last =
              [kind |-> "probing_question",
               q |-> st.takeaways[st.current_takeaway_index + 1]]
        /\ st.takeaways[st.current_takeaway_index + 1].concept =
              st.current_concept_index + 1

\* a resume has paused on the second takeaway after three retries of it
C37_Witness ==
    /\ status = "halted"
    /\ inv.kind = "resume"
    /\ st.next_action = "wait_for_response"
    /\ st.current_takeaway_index = 1
    /\ st.re_explain_count = MAX_RE_EXPLAIN_ATTEMPTS
    /\ st.messages.last.kind = "probing_question"

(* C38: no concept is skipped or taught twice: current_concept_index       *)
(* increases by exactly one per concept completion, and the planner runs   *)
(* exactly once for each index 0, 1, ..., len(concepts)-1, in increasing   *)
(* order, before the router selects assess.                                *)
\* ghost.plans is the number of lesson plans the planner has returned
C38_EveryConceptPlannedOnce ==
    [][/\ st'.current_concept_index \in
            {st.current_concept_index, st.current_concept_index + 1}
       /\ (At("planner") /\ ghost'.plans # ghost.plans) =>
            ghost.plans = st.current_concept_index
       /\ (st'.current_concept_index # st.current_concept_index) =>
            ghost.plans = st.current_concept_index + 1
       /\ (At("router") /\ node' = "mcq_generator") =>
            /\ st.current_concept_index = Len(st.concepts)
            /\ ghost.plans = Len(st.concepts)]_vars

====
